---- MODULE Spec2Model ----
(***************************************************************************)
(* Model of tools/convert_countries.py: the pipeline that turns country    *)
(* rings of a GeoJSON feature collection into normalized polygons.         *)
(*                                                                         *)
(* Arithmetic.  The program computes in binary floating point; the model   *)
(* computes the same expressions exactly, in fixed point:                  *)
(*   - source coordinates (lon, lat) are integers in millidegrees;         *)
(*   - projected coordinates are integers in units of 1/(24*CosScale)      *)
(*     millidegree, so that the halvings and the 4:3 scalings of the       *)
(*     aspect-ratio correction are exact;                                  *)
(*   - normalized coordinates are integers in units of 10^-4 (the four     *)
(*     decimals kept by round(_, 4));                                      *)
(*   - areas are kept doubled (the shoelace sum before the final / 2.0).   *)
(* Products that would leave 32 bits are computed by long multiplication   *)
(* (MulDivMod), so every quotient and remainder is exact.                  *)
(***************************************************************************)
EXTENDS Integers, Sequences, FiniteSets, TLC

VARIABLES
    entry,            \* "main" or "process_usa_split": the function that was called
    geojson_data,     \* the loaded feature collection (main, line 378)
    split_args,       \* <<continental_polys, alaska_polys>> of process_usa_split
    pc,               \* position in the running function
    map_idx,          \* position of main's loop over MAP_CONFIGS
    stderr,           \* the warnings and errors printed so far
    all_polygons,     \* process_country's locals ...
    filtered,
    center_lat,
    projected,
    bounds,
    frame,
    normalized_polys,
    areas,
    main_idx,
    result,           \* the value the last call returned (None when it returned nothing)
    results,          \* main's ordered mapping, as a sequence of <<map_id, result>>
    fault             \* the unhandled exception that ended the run, or "none"

vars == <<entry, geojson_data, split_args, pc, map_idx, stderr, all_polygons, filtered,
          center_lat, projected, bounds, frame, normalized_polys, areas, main_idx,
          result, results, fault>>

(* Python's None, as a value comparable with a result *)
None == [name |-> "None", polygons |-> <<>>, centroid |-> <<0, 0>>]

----------------------------------------------------------------------------
(* Integer helpers *)

Abs(n) == IF n < 0 THEN -n ELSE n

Sign(n) == IF n < 0 THEN -1 ELSE IF n > 0 THEN 1 ELSE 0

Deg(d) == d * 1000

RECURSIVE MulMod(_, _, _)
(* <<q, r>> with a * b = q * c + r and 0 <= r < c, for 0 <= a < c and b >= 0 *)
MulMod(a, b, c) ==
    IF b = 0 THEN <<0, 0>>
    ELSE LET h == MulMod(a, b \div 2, c)
             r3 == 2 * h[2] + (b % 2) * a
         IN  <<2 * h[1] + (r3 \div c), r3 % c>>

(* <<q, r>> with a * b = q * c + r and 0 <= r < c, for a, b >= 0 and c > 0 *)
MulDivMod(a, b, c) ==
    LET h == MulMod(a % c, b, c)
    IN  <<(a \div c) * b + h[1], h[2]>>

(* round-half-even of q + r/d, 0 <= r < d: Python's round() on the exact value *)
RoundHalfEven(q, r, d) ==
    IF 2 * r > d THEN q + 1
    ELSE IF 2 * r < d THEN q
    ELSE IF q % 2 = 0 THEN q ELSE q + 1

RECURSIVE SumSeq(_)
SumSeq(s) == IF s = <<>> THEN 0 ELSE s[1] + SumSeq(Tail(s))

RECURSIVE Flatten(_)
Flatten(ss) == IF ss = <<>> THEN <<>> ELSE ss[1] \o Flatten(Tail(ss))

SeqMin(s) == CHOOSE m \in {s[i] : i \in 1..Len(s)} : \A i \in 1..Len(s) : m <= s[i]
SeqMax(s) == CHOOSE m \in {s[i] : i \in 1..Len(s)} : \A i \in 1..Len(s) : m >= s[i]

(* list.index(max(list)) and max(list, key=...): the first position of a maximum *)
FirstMaxIndex(s) == CHOOSE i \in 1..Len(s) :
                        /\ \A j \in 1..Len(s) : s[j] <= s[i]
                        /\ \A j \in 1..(i - 1) : s[j] < s[i]

----------------------------------------------------------------------------
(* Configuration *)

MAP_IDS == <<"usa", "canada", "europe">>

MAP_CONFIGS ==
    [usa |-> [name |-> "United States",
              countries |-> <<"United States of America">>,
              continental_only |-> TRUE,
              min_polygon_area_deg2 |-> 2000000],
     canada |-> [name |-> "Canada",
                 countries |-> <<"Canada">>,
                 continental_only |-> FALSE,
                 min_polygon_area_deg2 |-> 5000000],
     europe |-> [name |-> "Europe",
                 countries |-> <<"Portugal", "Spain", "France", "Belgium", "Netherlands",
                     "Luxembourg", "Germany", "Switzerland", "Austria", "Italy", "Slovenia",
                     "Croatia", "Bosnia and Herz.", "Serbia", "Montenegro", "Kosovo",
                     "North Macedonia", "Albania", "Greece", "Bulgaria", "Romania",
                     "Hungary", "Slovakia", "Czechia", "Poland", "Denmark", "Norway",
                     "Sweden", "Finland", "Estonia", "Latvia", "Lithuania",
                     "United Kingdom", "Ireland", "Iceland">>,
                 continental_only |-> FALSE,
                 min_polygon_area_deg2 |-> 500000]]

(* tolerance, vertex budget and padding, the last two in units of 10^-4 *)
RDP_TOLERANCE == 30
MAX_VERTICES == 400
PADDING == 500
RoundScale == 10000
CosScale == 100

----------------------------------------------------------------------------
(* Bounds of the model *)

MaxFeatures == 2
MaxSplitPolys == 1
MaxCoord == 1
MaxRingLen == 4

----------------------------------------------------------------------------
(* The feature collections the model reads.  A ring is a sequence of       *)
(* <<lon, lat>> in millidegrees; the coordinates of a geometry are the     *)
(* exterior rings of its polygons, one for a Polygon (no polygon of the    *)
(* model has holes).                                                       *)

Ring(pts) == [i \in 1..Len(pts) |-> <<Deg(pts[i][1]), Deg(pts[i][2])>>]

UsMainland == Ring(<<<<-110, 30>>, <<-90, 30>>, <<-100, 45>>, <<-110, 30>>>>)
UsAlaska == Ring(<<<<-160, 60>>, <<-140, 60>>, <<-150, 70>>, <<-160, 60>>>>)
UsHawaii == Ring(<<<<-156, 19>>, <<-155, 19>>, <<-155, 20>>, <<-156, 19>>>>)
UsKeyA == Ring(<<<<-82, 26>>, <<-81, 26>>, <<-81, 27>>, <<-82, 26>>>>)
UsKeyB == Ring(<<<<-80, 26>>, <<-78, 26>>, <<-78, 27>>, <<-80, 26>>>>)
CaMainland == Ring(<<<<-110, 50>>, <<-90, 50>>, <<-90, 60>>, <<-110, 60>>, <<-110, 50>>>>)
CaArctic == Ring(<<<<-85, 70>>, <<-80, 70>>, <<-80, 72>>, <<-85, 70>>>>)
CaFlat == Ring(<<<<-100, 50>>, <<-90, 50>>, <<-95, 50>>, <<-100, 50>>>>)
FrMainland == Ring(<<<<-2, 43>>, <<7, 43>>, <<7, 50>>, <<-2, 50>>>>)
DeMainland ==
    Ring(<<<<-10, 40>>, <<30, 40>>, <<30, 50>>, <<-10, 50>>>>) \o <<<<-9999, 40000>>, <<-10000, 40000>>>>
IsWest == Ring(<<<<-24, 63>>, <<-20, 63>>, <<-20, 66>>, <<-24, 63>>>>)
IsEast == Ring(<<<<-18, 63>>, <<-14, 63>>, <<-14, 66>>, <<-18, 63>>>>)
IeLine == Ring(<<<<-8, 52>>, <<-8, 54>>, <<-8, 53>>, <<-8, 52>>>>)
AtMainland == Ring(<<<<-40, 30>>, <<-30, 30>>, <<-30, 40>>, <<-40, 30>>>>)

Feature(name, type, coordinates) ==
    [properties |-> [NAME |-> name], geometry |-> [type |-> type, coordinates |-> coordinates]]

UsaFeatures ==
    { Feature("United States of America", "MultiPolygon", <<UsMainland, UsAlaska, UsHawaii>>),
      Feature("United States of America", "Polygon", <<UsAlaska>>),
      Feature("United States of America", "MultiPolygon", <<UsKeyA, UsKeyB>>) }

FeatureCatalogue ==
    UsaFeatures \cup
    { Feature("Canada", "MultiPolygon", <<CaMainland, CaArctic>>),
      Feature("Canada", "Polygon", <<CaFlat>>),
      Feature("France", "Polygon", <<FrMainland>>),
      Feature("Germany", "Polygon", <<DeMainland>>),
      Feature("Iceland", "MultiPolygon", <<IsWest, IsEast>>),
      Feature("Ireland", "Polygon", <<IeLine>>),
      Feature("Atlantis", "Polygon", <<AtMainland>>) }

SeqsUpTo(S, n) == UNION {[1..k -> S] : k \in 0..n}

FeatureCollections == SeqsUpTo(FeatureCatalogue, MaxFeatures)

----------------------------------------------------------------------------
(* shapely: shape(), Polygon.exterior.coords, Polygon.area, Polygon.centroid *)

(* a LinearRing is closed when it is built *)
CloseRing(ring) == IF ring[1] = ring[Len(ring)] THEN ring ELSE Append(ring, ring[1])

(* shape(feature["geometry"]) followed by the isinstance split of lines 70-73 *)
shape(geometry) ==
    IF geometry.type = "Polygon" THEN <<CloseRing(geometry.coordinates[1])>>
    ELSE [i \in 1..Len(geometry.coordinates) |-> CloseRing(geometry.coordinates[i])]

RECURSIVE get_country_polygons(_, _)
get_country_polygons(features, country_name) ==
    IF features = <<>> THEN <<>>
    ELSE IF /\ features[1].properties.NAME = country_name
            /\ features[1].geometry.type \in {"Polygon", "MultiPolygon"}
         THEN shape(features[1].geometry)
         ELSE get_country_polygons(Tail(features), country_name)

(* the ring's vertices relative to its first vertex *)
Rel(coords) == [i \in 1..Len(coords) |->
                   <<coords[i][1] - coords[1][1], coords[i][2] - coords[1][2]>>]

(* the shoelace terms of a closed ring, edge by edge *)
Cross(u) == [i \in 1..(Len(u) - 1) |-> u[i][1] * u[i + 1][2] - u[i + 1][1] * u[i][2]]

(* twice Polygon.area of the polygon whose exterior is the closed ring *)
ShapelyArea2(coords) == Abs(SumSeq(Cross(Rel(coords))))

(* the sum over the edges i..Len(c) of s[i] * c[i] * sg, divided by d > 0:  *)
(* <<q, r>> with sum = q * d + r and 0 <= r < d                             *)
RECURSIVE SumDiv(_, _, _, _, _)
SumDiv(s, c, sg, d, i) ==
    IF i > Len(c) THEN <<0, 0>>
    ELSE LET rest == SumDiv(s, c, sg, d, i + 1)
             t == MulDivMod(Abs(c[i]), Abs(s[i]), d)
             up == rest[2] + t[2]
             down == rest[2] - t[2]
         IN  IF Sign(s[i]) * Sign(c[i]) * sg >= 0
             THEN <<rest[1] + t[1] + (up \div d), up % d>>
             ELSE IF down < 0 THEN <<rest[1] - t[1] - 1, down + d>>
                  ELSE <<rest[1] - t[1], down>>

(* Polygon.centroid of the polygon whose exterior is the closed ring, one  *)
(* axis of it: the record [k, q, r, d] stands for the exact value          *)
(* (q + r/d) / k.  Area-weighted when the ring encloses area; for a ring   *)
(* without area the centroid of its edges weighted by their length (the    *)
(* rings of the model without area are collinear, where lengths are        *)
(* proportional to the extent along one axis); for a ring of one repeated  *)
(* point, that point.                                                      *)
CentroidAxis(coords, axis) ==
    LET u == Rel(coords)
        c == Cross(u)
        D == SumSeq(c)
        s == [i \in 1..(Len(u) - 1) |-> u[i][axis] + u[i + 1][axis]]
        wx == [i \in 1..(Len(u) - 1) |-> Abs(u[i + 1][1] - u[i][1])]
        wy == [i \in 1..(Len(u) - 1) |-> Abs(u[i + 1][2] - u[i][2])]
        w == IF SumSeq(wx) > 0 THEN wx ELSE wy
        W == SumSeq(w)
    IN  IF D # 0
        THEN LET a == SumDiv(s, c, Sign(D), Abs(D), 1)
             IN  [k |-> 3, q |-> 3 * coords[1][axis] + a[1], r |-> a[2], d |-> Abs(D)]
        ELSE IF W > 0
        THEN LET a == SumDiv(s, w, 1, W, 1)
             IN  [k |-> 2, q |-> 2 * coords[1][axis] + a[1], r |-> a[2], d |-> W]
        ELSE [k |-> 1, q |-> coords[1][axis], r |-> 0, d |-> 1]

(* c < bound, for a centroid coordinate c and an integer bound *)
CentroidLess(c, bound) == c.q < c.k * bound

(* round(c, 4) of a centroid coordinate in units of 10^-4 *)
RoundCentroid(c) ==
    LET base == c.q \div c.k
        m == c.k - 2 * (c.q % c.k)
    IN  IF m >= 2 THEN base
        ELSE IF m = 1 THEN RoundHalfEven(base, c.r, c.d)
        ELSE IF m = 0 /\ c.r = 0 THEN (IF base % 2 = 0 THEN base ELSE base + 1)
        ELSE base + 1

----------------------------------------------------------------------------
(* The geometry functions of the program *)

(* math.cos(math.radians(center_lat)) in hundredths, center_lat = <<sum, n>>: *)
(* the cosine series to the sixth power on the angle in units of 10^-4 rad    *)
CosRadians(lat) ==
    LET md == Abs(lat[1] \div lat[2])
        rad == (md * 3927) \div 22500
        r2 == (rad * rad) \div 10000
        c4 == 10000 - (r2 \div 2) + ((r2 * r2) \div 240000)
                    - ((((r2 * r2) \div 10000) * r2) \div 7200000)
    IN  IF c4 < 0 THEN 0 ELSE c4 \div (10000 \div CosScale)

equirectangular_project(lon, lat, clat) ==
    <<24 * lon * CosRadians(clat), -(24 * lat * CosScale)>>

project_polygons(polygons, clat) ==
    [p \in 1..Len(polygons) |->
        [i \in 1..Len(polygons[p]) |->
            equirectangular_project(polygons[p][i][1], polygons[p][i][2], clat)]]

compute_bounds(all_coords) ==
    LET pts == Flatten(all_coords)
        xs == [i \in 1..Len(pts) |-> pts[i][1]]
        ys == [i \in 1..Len(pts) |-> pts[i][2]]
    IN  [min_x |-> SeqMin(xs), min_y |-> SeqMin(ys), max_x |-> SeqMax(xs), max_y |-> SeqMax(ys)]

(* one coordinate of normalize_coords: round(padding + ((v - lo) / range) * usable, 4) *)
NormalizeValue(v, lo, range, padding) ==
    LET t == MulDivMod(v - lo, RoundScale - 2 * padding, range)
    IN  RoundHalfEven(padding + t[1], t[2], range)

normalize_coords(coords, min_x, min_y, range_x, range_y, padding) ==
    [i \in 1..Len(coords) |->
        <<NormalizeValue(coords[i][1], min_x, range_x, padding),
          NormalizeValue(coords[i][2], min_y, range_y, padding)>>]

(* polygon_area without the edge that closes the ring *)
polygon_area_open(coords) ==
    Abs(SumSeq([i \in 1..(Len(coords) - 1) |->
            coords[i][1] * coords[i + 1][2] - coords[i + 1][1] * coords[i][2]]))

(* the shoelace sum of an open ring, before the final / 2.0 *)
polygon_area(coords) ==
    LET n == Len(coords)
        j(i) == (i % n) + 1
    IN  Abs(SumSeq([i \in 1..n |->
                coords[i][1] * coords[j(i)][2] - coords[j(i)][1] * coords[i][2]]))

compute_centroid(coords) ==
    LET ring == CloseRing(coords)
    IN  <<RoundCentroid(CentroidAxis(ring, 1)), RoundCentroid(CentroidAxis(ring, 2))>>

(* rdp_simplify: shapely's topology-preserving simplify is not part of the  *)
(* program; every ring it can return is allowed: a closed ring made of      *)
(* vertices of the input, in order, that keeps the end points and at least  *)
(* four coordinates                                                         *)
PickFrom(ring, K) ==
    LET F[i \in 0..Len(ring)] ==
            IF i = 0 THEN <<>>
            ELSE IF i \in K THEN Append(F[i - 1], ring[i]) ELSE F[i - 1]
    IN  F[Len(ring)]

rdp_simplify(coords, tolerance) ==
    IF Len(coords) <= 3 THEN {coords}
    ELSE LET ring == CloseRing(coords)
         IN  {PickFrom(ring, K \cup {1, Len(ring)}) :
                 K \in {J \in SUBSET (2..(Len(ring) - 1)) : Cardinality(J) >= 2}}

----------------------------------------------------------------------------
(* process_country, stage by stage *)

RECURSIVE ExtractAll(_, _)
(* lines 148-155: the polygons of the listed countries, in order *)
ExtractAll(features, countries) ==
    IF countries = <<>> THEN <<>>
    ELSE get_country_polygons(features, countries[1]) \o ExtractAll(features, Tail(countries))

(* lines 152-154: one warning for each listed country that yields no polygon *)
Warnings(features, countries) ==
    SelectSeq(countries, LAMBDA c : get_country_polygons(features, c) = <<>>)

(* the filter with > in place of >= *)
AreaFilteredStrict(polys, min_area) ==
    LET keep == SelectSeq(polys, LAMBDA p : ShapelyArea2(p) > 2 * min_area)
    IN  IF keep # <<>> THEN keep
        ELSE <<polys[FirstMaxIndex([i \in 1..Len(polys) |-> ShapelyArea2(polys[i])])]>>

(* lines 162-167: the minimum-area filter and its fallback *)
AreaFiltered(polys, min_area) ==
    LET keep == SelectSeq(polys, LAMBDA p : ShapelyArea2(p) >= 2 * min_area)
    IN  IF keep # <<>> THEN keep
        ELSE <<polys[FirstMaxIndex([i \in 1..Len(polys) |-> ShapelyArea2(polys[i])])]>>

(* line 178: the centroid test that excludes Alaska and Hawaii *)
Excluded(poly) ==
    \/ CentroidLess(CentroidAxis(poly, 1), Deg(-130))
    \/ CentroidLess(CentroidAxis(poly, 2), Deg(25))

(* the exclusion never applied *)
ContinentalFilteredNever(polys, id, cfg) == polys

(* lines 172-184 *)
ContinentalFiltered(polys, id, cfg) ==
    IF id = "usa" /\ cfg.continental_only
    THEN SelectSeq(polys, LAMBDA p : ~Excluded(p))
    ELSE polys

(* lines 187-190: <<sum(all_lats), len(all_lats)>> *)
AllLats(polys) ==
    LET pts == Flatten(polys)
    IN  <<SumSeq([i \in 1..Len(pts) |-> pts[i][2]]), Len(pts)>>

(* the correction with its two branches exchanged *)
AspectCorrectSwapped(b) ==
    LET range_x == b.max_x - b.min_x
        range_y == b.max_y - b.min_y
    IN  IF range_y > 0 /\ 3 * range_x < 4 * range_y
        THEN LET new_range_y == (range_x * 3) \div 4
                 pad == (new_range_y - range_y) \div 2
             IN  [min_x |-> b.min_x, min_y |-> b.min_y - pad,
                  range_x |-> range_x, range_y |-> new_range_y]
        ELSE LET new_range_x == (range_y * 4) \div 3
                 pad == (new_range_x - range_x) \div 2
             IN  [min_x |-> b.min_x - pad, min_y |-> b.min_y,
                  range_x |-> new_range_x, range_y |-> range_y]

(* the correction that enlarges the range and leaves the minimum where it was *)
AspectCorrectUnshifted(b) ==
    LET range_x == b.max_x - b.min_x
        range_y == b.max_y - b.min_y
    IN  IF range_y > 0 /\ 3 * range_x > 4 * range_y
        THEN [min_x |-> b.min_x, min_y |-> b.min_y,
              range_x |-> range_x, range_y |-> (range_x * 3) \div 4]
        ELSE [min_x |-> b.min_x, min_y |-> b.min_y,
              range_x |-> (range_y * 4) \div 3, range_y |-> range_y]

(* lines 198-216: the frame <<min_x, min_y, range_x, range_y>> used to normalize *)
AspectCorrect(b) ==
    LET range_x == b.max_x - b.min_x
        range_y == b.max_y - b.min_y
    IN  IF range_y > 0 /\ 3 * range_x > 4 * range_y
        THEN LET new_range_y == (range_x * 3) \div 4
                 pad == (new_range_y - range_y) \div 2
             IN  [min_x |-> b.min_x, min_y |-> b.min_y - pad,
                  range_x |-> range_x, range_y |-> new_range_y]
        ELSE LET new_range_x == (range_y * 4) \div 3
                 pad == (new_range_x - range_x) \div 2
             IN  [min_x |-> b.min_x - pad, min_y |-> b.min_y,
                  range_x |-> new_range_x, range_y |-> range_y]

(* lines 225-227: drop the closing vertex when the ring repeats its first one *)
StripClosing(normed) ==
    IF Len(normed) > 1 /\ normed[1] = normed[Len(normed)]
    THEN SubSeq(normed, 1, Len(normed) - 1)
    ELSE normed

(* lines 221-224: the rings one projected ring can normalize to *)
Normed(coords, f) ==
    LET normed == normalize_coords(coords, f.min_x, f.min_y, f.range_x, f.range_y, PADDING)
    IN  IF Len(normed) > MAX_VERTICES THEN rdp_simplify(normed, RDP_TOLERANCE) ELSE {normed}

(* lines 219-229: the lists of normalized polygons the loop can build *)
NormalizedLists(proj, f) ==
    LET choices == {c \in [1..Len(proj) -> UNION {Normed(proj[i], f) : i \in 1..Len(proj)}] :
                       \A i \in 1..Len(proj) : c[i] \in Normed(proj[i], f)}
    IN  {SelectSeq([i \in 1..Len(proj) |-> StripClosing(c[i])], LAMBDA r : Len(r) >= 3) :
            c \in choices}

(* line 232 *)
Areas(polys) == [i \in 1..Len(polys) |-> polygon_area(polys[i])]

(* the last position of the maximum instead of the first *)
MainIndexLast(a) == CHOOSE i \in 1..Len(a) :
                        /\ \A j \in 1..Len(a) : a[j] <= a[i]
                        /\ \A j \in (i + 1)..Len(a) : a[j] < a[i]

(* line 233: areas.index(max(areas)) *)
MainIndex(a) == FirstMaxIndex(a)

----------------------------------------------------------------------------
(* The state machine *)

NoBounds == [min_x |-> 0, min_y |-> 0, max_x |-> 0, max_y |-> 0]
NoFrame == [min_x |-> 0, min_y |-> 0, range_x |-> 0, range_y |-> 0]

UsaPolygons == UNION {{shape(f.geometry)[i] : i \in 1..Len(shape(f.geometry))} : f \in UsaFeatures}

Locals ==
    /\ map_idx = 1
    /\ stderr = <<>>
    /\ all_polygons = <<>>
    /\ filtered = <<>>
    /\ center_lat = <<0, 1>>
    /\ projected = <<>>
    /\ bounds = NoBounds
    /\ frame = NoFrame
    /\ normalized_polys = <<>>
    /\ areas = <<>>
    /\ main_idx = 0
    /\ result = None
    /\ results = <<>>
    /\ fault = "none"

Init ==
    /\ \/ /\ entry = "main"
          /\ geojson_data \in FeatureCollections
          /\ split_args = <<<<>>, <<>>>>
          /\ pc = "main"
       \/ /\ entry = "process_usa_split"
          /\ geojson_data = <<>>
          /\ split_args \in SeqsUpTo(UsaPolygons, MaxSplitPolys) \X SeqsUpTo(UsaPolygons, MaxSplitPolys)
          /\ pc = "split"
    /\ Locals

map_id == MAP_IDS[map_idx]
config == MAP_CONFIGS[map_id]

Raise(exception) ==
    /\ pc' = "fault"
    /\ fault' = exception

(* main, lines 382-386, around process_country, lines 148-159 *)
Extract ==
    /\ pc = "main"
    /\ map_idx <= Len(MAP_IDS)
    /\ all_polygons' = ExtractAll(geojson_data, config.countries)
    /\ LET warned == [i \in 1..Len(Warnings(geojson_data, config.countries)) |->
                         <<"WARNING", Warnings(geojson_data, config.countries)[i]>>]
       IN  IF all_polygons' = <<>>
           THEN /\ stderr' = stderr \o warned \o <<<<"ERROR", map_id>>>>
                /\ result' = None
                /\ map_idx' = map_idx + 1
                /\ pc' = "main"
           ELSE /\ stderr' = stderr \o warned
                /\ pc' = "area_filter"
                /\ UNCHANGED <<result, map_idx>>
    /\ UNCHANGED <<entry, geojson_data, split_args, filtered, center_lat, projected, bounds,
                   frame, normalized_polys, areas, main_idx, results, fault>>

(* lines 161-169 *)
AreaFilter ==
    /\ pc = "area_filter"
    /\ filtered' = AreaFiltered(all_polygons, config.min_polygon_area_deg2)
    /\ pc' = "continental"
    /\ UNCHANGED <<entry, geojson_data, split_args, map_idx, stderr, all_polygons, center_lat,
                   projected, bounds, frame, normalized_polys, areas, main_idx, result, results, fault>>

(* lines 171-184 *)
ContinentalFilter ==
    /\ pc = "continental"
    /\ filtered' = ContinentalFiltered(filtered, map_id, config)
    /\ pc' = "center_lat"
    /\ UNCHANGED <<entry, geojson_data, split_args, map_idx, stderr, all_polygons, center_lat,
                   projected, bounds, frame, normalized_polys, areas, main_idx, result, results, fault>>

(* process_usa_split, line 248 *)
SplitJoin ==
    /\ pc = "split"
    /\ filtered' = split_args[1] \o split_args[2]
    /\ pc' = "center_lat"
    /\ UNCHANGED <<entry, geojson_data, split_args, map_idx, stderr, all_polygons, center_lat,
                   projected, bounds, frame, normalized_polys, areas, main_idx, result, results, fault>>

(* lines 186-191 (250-255): sum(all_lats) / len(all_lats) *)
CenterLat ==
    /\ pc = "center_lat"
    /\ IF AllLats(filtered)[2] = 0
       THEN /\ Raise("ZeroDivisionError")
            /\ UNCHANGED center_lat
       ELSE /\ center_lat' = AllLats(filtered)
            /\ pc' = "project"
            /\ UNCHANGED fault
    /\ UNCHANGED <<entry, geojson_data, split_args, map_idx, stderr, all_polygons, filtered,
                   projected, bounds, frame, normalized_polys, areas, main_idx, result, results>>

(* line 194 (258) *)
Project ==
    /\ pc = "project"
    /\ projected' = project_polygons(filtered, center_lat)
    /\ pc' = "bounds"
    /\ UNCHANGED <<entry, geojson_data, split_args, map_idx, stderr, all_polygons, filtered,
                   center_lat, bounds, frame, normalized_polys, areas, main_idx, result, results, fault>>

(* line 197 (261) *)
Bounds ==
    /\ pc = "bounds"
    /\ bounds' = compute_bounds(projected)
    /\ pc' = "aspect"
    /\ UNCHANGED <<entry, geojson_data, split_args, map_idx, stderr, all_polygons, filtered,
                   center_lat, projected, frame, normalized_polys, areas, main_idx, result, results, fault>>

(* lines 198-216 (262-278) *)
Aspect ==
    /\ pc = "aspect"
    /\ frame' = AspectCorrect(bounds)
    /\ pc' = "normalize"
    /\ UNCHANGED <<entry, geojson_data, split_args, map_idx, stderr, all_polygons, filtered,
                   center_lat, projected, bounds, normalized_polys, areas, main_idx, result, results, fault>>

(* lines 218-229 (280-289): the divisions of normalize_coords raise when a range is 0 *)
Normalize ==
    /\ pc = "normalize"
    /\ IF frame.range_x = 0 \/ frame.range_y = 0
       THEN /\ Raise("ZeroDivisionError")
            /\ UNCHANGED normalized_polys
       ELSE /\ normalized_polys' \in NormalizedLists(projected, frame)
            /\ pc' = "analyze"
            /\ UNCHANGED fault
    /\ UNCHANGED <<entry, geojson_data, split_args, map_idx, stderr, all_polygons, filtered,
                   center_lat, projected, bounds, frame, areas, main_idx, result, results>>

(* lines 231-243 (291-303) and the return to main, lines 385-386: max([]) raises *)
Analyze ==
    /\ pc = "analyze"
    /\ IF normalized_polys = <<>>
       THEN /\ areas' = <<>>
            /\ Raise("ValueError")
            /\ UNCHANGED <<main_idx, result, results, map_idx>>
       ELSE /\ areas' = Areas(normalized_polys)
            /\ main_idx' = MainIndex(areas')
            /\ result' = [name |-> IF entry = "main" THEN config.name ELSE "United States",
                          polygons |-> normalized_polys,
                          centroid |-> compute_centroid(normalized_polys[main_idx'])]
            /\ IF entry = "main"
               THEN /\ results' = Append(results, <<map_id, result'>>)
                    /\ map_idx' = map_idx + 1
                    /\ pc' = "main"
               ELSE /\ pc' = "done"
                    /\ UNCHANGED <<results, map_idx>>
            /\ UNCHANGED fault
    /\ UNCHANGED <<entry, geojson_data, split_args, stderr, all_polygons, filtered, center_lat,
                   projected, bounds, frame, normalized_polys>>

(* lines 388-395: the results are handed to the writer *)
Generate ==
    /\ pc = "main"
    /\ map_idx > Len(MAP_IDS)
    /\ pc' = "done"
    /\ UNCHANGED <<entry, geojson_data, split_args, map_idx, stderr, all_polygons, filtered,
                   center_lat, projected, bounds, frame, normalized_polys, areas, main_idx, result,
                   results, fault>>

Next ==
    \/ Extract
    \/ AreaFilter
    \/ ContinentalFilter
    \/ SplitJoin
    \/ CenterLat
    \/ Project
    \/ Bounds
    \/ Aspect
    \/ Normalize
    \/ Analyze
    \/ Generate

Spec == Init /\ [][Next]_vars

----------------------------------------------------------------------------
(* polygon_area on its own: a ring of small integer coordinates, measured   *)
(* and then re-indexed                                                       *)

TestRings == UNION {[1..n -> (0..MaxCoord) \X (0..MaxCoord)] : n \in 3..MaxRingLen}

Rotated(ring) == Append(Tail(ring), ring[1])

Reversed(ring) == [i \in 1..Len(ring) |-> ring[Len(ring) + 1 - i]]

InitArea ==
    /\ entry = "polygon_area"
    /\ geojson_data = <<>>
    /\ split_args = <<<<>>, <<>>>>
    /\ pc = "area"
    /\ map_idx = 1
    /\ stderr = <<>>
    /\ all_polygons = <<>>
    /\ filtered = <<>>
    /\ center_lat = <<0, 1>>
    /\ projected = <<>>
    /\ bounds = NoBounds
    /\ frame = NoFrame
    /\ normalized_polys \in {<<r>> : r \in TestRings}
    /\ areas = <<>>
    /\ main_idx = 0
    /\ result = None
    /\ results = <<>>
    /\ fault = "none"

(* line 232 *)
Measure ==
    /\ pc = "area"
    /\ areas' = Areas(normalized_polys)
    /\ pc' = "measured"
    /\ UNCHANGED <<entry, geojson_data, split_args, map_idx, stderr, all_polygons, filtered,
                   center_lat, projected, bounds, frame, normalized_polys, main_idx, result,
                   results, fault>>

Rotate ==
    /\ pc \in {"measured", "reindexed"}
    /\ normalized_polys' = <<Rotated(normalized_polys[1])>>
    /\ pc' = "reindexed"
    /\ UNCHANGED <<entry, geojson_data, split_args, map_idx, stderr, all_polygons, filtered,
                   center_lat, projected, bounds, frame, areas, main_idx, result, results, fault>>

Reverse ==
    /\ pc \in {"measured", "reindexed"}
    /\ normalized_polys' = <<Reversed(normalized_polys[1])>>
    /\ pc' = "reindexed"
    /\ UNCHANGED <<entry, geojson_data, split_args, map_idx, stderr, all_polygons, filtered,
                   center_lat, projected, bounds, frame, areas, main_idx, result, results, fault>>

NextArea ==
    \/ Measure
    \/ Rotate
    \/ Reverse

SpecArea == InitArea /\ [][NextArea]_vars

----------------------------------------------------------------------------
(* Properties *)

(* every map result built so far: main's mapping and the last returned value *)
AllResults == {results[i][2] : i \in 1..Len(results)} \cup (IF result = None THEN {} ELSE {result})

(* process_country has just handed a result back to main *)
Returned == entry = "main" /\ pc = "main" /\ result # None

(* the configuration of the target whose result was just returned *)
ReturnedId == MAP_IDS[map_idx - 1]
ReturnedConfig == MAP_CONFIGS[ReturnedId]

RawRangeX == bounds.max_x - bounds.min_x
RawRangeY == bounds.max_y - bounds.min_y

(* out holds, in the same order, one match for each entry of in at a       *)
(* position of K, and nothing else                                          *)
IsSelection(out, in, K, Match(_, _)) ==
    /\ Len(out) = Cardinality(K)
    /\ \E f \in [1..Len(out) -> K] :
          /\ \A i, j \in 1..Len(out) : i < j => f[i] < f[j]
          /\ \A i \in 1..Len(out) : Match(out[i], in[f[i]])

(* out holds matches for the entries of in at the positions of K, in order *)
HasInOrder(out, in, K, Match(_, _)) ==
    \E g \in [K -> 1..Len(out)] :
        /\ \A i, j \in K : i < j => g[i] < g[j]
        /\ \A i \in K : Match(out[g[i]], in[i])

(* the processed polygon o is what the source polygon p is normalized to *)
ProcessedFrom(o, p) ==
    o \in {StripClosing(n) : n \in Normed(project_polygons(<<p>>, center_lat)[1], frame)}

PassedArea(polys, min_area) ==
    {i \in 1..Len(polys) : ShapelyArea2(polys[i]) >= 2 * min_area}

(* C1: every polygon of every map result has at least 3 vertices, and every *)
(* coordinate of every vertex lies within [PADDING, 1 - PADDING].           *)
C1_WithinPadding ==
    \A r \in AllResults : \A p \in 1..Len(r.polygons) :
        /\ Len(r.polygons[p]) >= 3
        /\ \A v \in 1..Len(r.polygons[p]) : \A axis \in 1..2 :
              /\ r.polygons[p][v][axis] >= PADDING
              /\ r.polygons[p][v][axis] <= RoundScale - PADDING

(* a run whose mapping holds a result that fills the width (height padded)  *)
(* and one that fills the height only (width padded)                        *)
C1_Witness ==
    \E a, b \in AllResults :
        /\ \E p \in 1..Len(a.polygons) : \E v \in 1..Len(a.polygons[p]) :
              a.polygons[p][v][1] = PADDING
        /\ \E p \in 1..Len(b.polygons) : \E v \in 1..Len(b.polygons[p]) :
              b.polygons[p][v][2] = PADDING
        /\ \A p \in 1..Len(b.polygons) : \A v \in 1..Len(b.polygons[p]) :
              b.polygons[p][v][1] > PADDING

(* C2: in process_country the list handed to the centre-latitude            *)
(* computation, after the area filter, its fallback and the continental     *)
(* exclusion, holds at least one polygon.                                   *)
C2_FilteredNonEmpty ==
    (entry = "main" /\ pc = "center_lat" /\ all_polygons # <<>>) => filtered # <<>>

(* C3: a target whose projected bounding box has zero height or zero width  *)
(* is processed without an unhandled fault.                                 *)
C3_DegenerateHandled ==
    (/\ entry = "main"
     /\ projected # <<>>
     /\ bounds = compute_bounds(projected)
     /\ (RawRangeY = 0 \/ RawRangeX = 0))
    => fault = "none"

Present(country) == \E i \in 1..Len(geojson_data) : geojson_data[i].properties.NAME = country

ExpectedIds ==
    SelectSeq(MAP_IDS, LAMBDA id :
        \E k \in 1..Len(MAP_CONFIGS[id].countries) : Present(MAP_CONFIGS[id].countries[k]))

(* C4: main ends with a mapping that holds, in configuration order, exactly *)
(* the targets with at least one listed region in the feature collection.   *)
C4_SkipAndContinue ==
    (entry = "main" /\ pc \in {"done", "fault"}) =>
        /\ pc = "done"
        /\ [i \in 1..Len(results) |-> results[i][1]] = ExpectedIds

(* C5: for a bounding box of positive height the corrected frame is exactly *)
(* 4:3, changes one axis only (the height when the box is wider than 4:3,   *)
(* the width otherwise), never shrinks it, lowers its minimum by half of    *)
(* what was added, and contains the bounding box.                           *)
C5_AspectCorrection ==
    (pc \in {"normalize", "analyze"} /\ RawRangeY > 0) =>
        /\ 3 * frame.range_x = 4 * frame.range_y
        /\ IF 3 * RawRangeX > 4 * RawRangeY
           THEN /\ frame.min_x = bounds.min_x
                /\ frame.range_x = RawRangeX
                /\ frame.range_y >= RawRangeY
                /\ 2 * (bounds.min_y - frame.min_y) = frame.range_y - RawRangeY
           ELSE /\ frame.min_y = bounds.min_y
                /\ frame.range_y = RawRangeY
                /\ frame.range_x >= RawRangeX
                /\ 2 * (bounds.min_x - frame.min_x) = frame.range_x - RawRangeX
        /\ frame.min_x <= bounds.min_x
        /\ frame.min_y <= bounds.min_y
        /\ frame.min_x + frame.range_x >= bounds.max_x
        /\ frame.min_y + frame.range_y >= bounds.max_y

(* a box wider than 4:3 whose height was enlarged *)
C5_Witness ==
    /\ pc = "normalize"
    /\ RawRangeY > 0
    /\ 3 * RawRangeX > 4 * RawRangeY
    /\ frame.range_y > RawRangeY
    /\ frame.min_y < bounds.min_y

(* C6: after the minimum-area filter, the filtered list is exactly the      *)
(* polygons that reach the threshold when one does, and otherwise exactly   *)
(* one polygon, of maximum area among the extracted ones.                   *)
C6_AreaFilter ==
    pc = "continental" =>
        LET K == PassedArea(all_polygons, config.min_polygon_area_deg2)
        IN  IF K # {}
            THEN IsSelection(filtered, all_polygons, K, LAMBDA o, q : o = q)
            ELSE /\ Len(filtered) = 1
                 /\ \E j \in 1..Len(all_polygons) :
                       /\ filtered[1] = all_polygons[j]
                       /\ \A i \in 1..Len(all_polygons) :
                             ShapelyArea2(all_polygons[i]) <= ShapelyArea2(all_polygons[j])

(* no polygon reaches the threshold and the largest is not the first *)
C6_Witness ==
    /\ pc = "continental"
    /\ PassedArea(all_polygons, config.min_polygon_area_deg2) = {}
    /\ Len(all_polygons) >= 2
    /\ filtered = <<all_polygons[2]>>
    /\ ShapelyArea2(all_polygons[1]) < ShapelyArea2(all_polygons[2])

(* C7: the centroid of a result is that of its polygon of maximal shoelace  *)
(* area, the first one in order when several share the maximum.             *)
C7_MainPolygon ==
    result # None =>
        /\ main_idx \in 1..Len(result.polygons)
        /\ \A j \in 1..Len(result.polygons) :
              polygon_area(result.polygons[j]) <= polygon_area(result.polygons[main_idx])
        /\ \A j \in 1..(main_idx - 1) :
              polygon_area(result.polygons[j]) < polygon_area(result.polygons[main_idx])
        /\ result.centroid = compute_centroid(result.polygons[main_idx])

(* two polygons share the maximal area *)
C7_Witness ==
    /\ result # None
    /\ Len(result.polygons) >= 2
    /\ main_idx = 1
    /\ polygon_area(result.polygons[1]) > 0
    /\ polygon_area(result.polygons[2]) = polygon_area(result.polygons[1])

(* C8: the area measured for a ring equals the area of every ring reached   *)
(* from it by rotating the vertex list and by reversing it, and it is not   *)
(* negative.                                                                *)
C8_AreaReindexing ==
    (entry = "polygon_area" /\ areas # <<>>) =>
        /\ areas[1] = polygon_area(normalized_polys[1])
        /\ areas[1] >= 0

(* a ring with area, of four vertices, after it was re-indexed *)
C8_Witness ==
    /\ entry = "polygon_area"
    /\ pc = "reindexed"
    /\ Len(normalized_polys[1]) = 4
    /\ areas[1] > 0
    /\ normalized_polys[1] # Rotated(normalized_polys[1])
    /\ normalized_polys[1] # Reversed(normalized_polys[1])

(* C9, as stated: every extracted polygon that passed the minimum-area      *)
(* filter is in the result, in extraction order.                            *)
C9_AreaFilteredOnly ==
    Returned =>
        HasInOrder(result.polygons, all_polygons,
                   PassedArea(all_polygons, ReturnedConfig.min_polygon_area_deg2),
                   ProcessedFrom)

(* the positions of the extracted polygons that the region filter keeps *)
Kept ==
    LET K == PassedArea(all_polygons, ReturnedConfig.min_polygon_area_deg2)
        area2 == [i \in 1..Len(all_polygons) |-> ShapelyArea2(all_polygons[i])]
        A == IF K # {} THEN K ELSE {FirstMaxIndex(area2)}
    IN  IF ReturnedId = "usa" /\ ReturnedConfig.continental_only
        THEN {i \in A : ~Excluded(all_polygons[i])}
        ELSE A

(* C9, amended: the result holds, in extraction order, exactly the          *)
(* extracted polygons that passed the minimum-area filter (the first        *)
(* largest one when none passed) and, for the usa target, the continental   *)
(* exclusion.                                                               *)
C9_RegionFilteredOnly ==
    Returned => IsSelection(result.polygons, all_polygons, Kept, ProcessedFrom)

(* a polygon passed the area filter and the continental exclusion dropped it *)
C9_Witness ==
    /\ Returned
    /\ ReturnedId = "usa"
    /\ Len(result.polygons) >= 1
    /\ Cardinality(PassedArea(all_polygons, ReturnedConfig.min_polygon_area_deg2))
          > Len(result.polygons)

(* C10: no polygon of a map result repeats its first vertex as its last.   *)
C10_NotClosed ==
    \A r \in AllResults : \A p \in 1..Len(r.polygons) :
        r.polygons[p][1] # r.polygons[p][Len(r.polygons[p])]

====
